---------------------------- MODULE Spec2Model ----------------------------
(***************************************************************************)
(* Model of es_conn.go (package devstats): conversion of time-series       *)
(* points into ElasticSearch documents (WriteESPoints), their content      *)
(* derived identities (AddBulksItems), the index life cycle (IndexExists,  *)
(* CreateIndex) and the delete-then-insert bulk protocol (ExecuteBulks).   *)
(*                                                                         *)
(* Go strings are sequences of one-character strings, so that              *)
(* concatenation ("t" + p.name) and strings.Replace are computed.  A Go    *)
(* map is a function; a range loop over a map visits its keys in an order  *)
(* the language leaves unspecified, which is a choice of the action.       *)
(***************************************************************************)
EXTENDS Integers, Sequences, FiniteSets, TLC

(***************************************************************************)
(* Bounds of the model.                                                    *)
(***************************************************************************)
MaxPts == 2
MaxCalls == 2
MaxLeft == 1
MaxFaults == 1
MaxAttrs == 4

Writers == {1, 2}

(***************************************************************************)
(* Strings used by the code.                                               *)
(***************************************************************************)
S_type == <<"t", "y", "p", "e">>
S_time == <<"t", "i", "m", "e">>
S_tag_time == <<"t", "a", "g", "_", "t", "i", "m", "e">>
S_period == <<"p", "e", "r", "i", "o", "d">>
S_series == <<"s", "e", "r", "i", "e", "s">>
S_time_added == <<"t", "i", "m", "e", "_", "a", "d", "d", "e", "d">>
S_name == <<"n", "a", "m", "e">>
S_svalue == <<"s", "v", "a", "l", "u", "e">>
S_ivalue == <<"i", "v", "a", "l", "u", "e">>
S_data == <<"d", "a", "t", "a">>

(***************************************************************************)
(* Values of interface{}: a tagged value.  "str" a Go string, "int" an     *)
(* integer, "flt" a float64, "oth" any other dynamic type (a bool, a       *)
(* struct), "data" a []ESDataObject.                                       *)
(***************************************************************************)
StrV(s) == [k |-> "str", v |-> s]
IntV(n) == [k |-> "int", v |-> n]
FltV(n) == [k |-> "flt", v |-> n]
OthV == [k |-> "oth", v |-> 0]
DataV(d) == [k |-> "data", v |-> d]

(* A Go map that may be nil. *)
NilMap == [isNil |-> TRUE, m |-> <<>>]
MapOf(f) == [isNil |-> FALSE, m |-> f]

(* obj[k] = v on map[string]interface{} *)
Put(obj, k, v) == [x \in (DOMAIN obj) \cup {k} |-> IF x = k THEN v ELSE obj[x]]

(* The orders in which a range loop may visit the keys of map m. *)
RangeOrders(m) ==
  {o \in [1 .. Cardinality(DOMAIN m) -> DOMAIN m] :
     \A i, j \in DOMAIN o : i /= j => o[i] /= o[j]}

(* ESDataObject{Name: n, SValue: s} and ESDataObject{Name: n, IValue: f} *)
ESDataObject(n, iv, sv) == [Name |-> n, IValue |-> iv, SValue |-> sv]

(* strings.Replace(fieldName, ".", "", -1) *)
ESEscapeFieldName(fieldName) == SelectSeq(fieldName, LAMBDA c : c /= ".")

(***************************************************************************)
(* ToESDate formats a time with the index's date format                    *)
(* "yyyy-MM-dd HH:mm:ss"; the model's times are whole seconds of one       *)
(* minute.                                                                 *)
(***************************************************************************)
Digit(n) == <<"0", "1", "2", "3", "4", "5", "6", "7", "8", "9">>[n + 1]
ToESDate(t) == StrV(<<"0", "0", ":", Digit(t \div 10), Digit(t % 10)>>)

(* GetFloatFromInterface: the float64 of a numeric value, ok = false otherwise *)
GetFloatFromInterface(fv) ==
  IF fv.k \in {"int", "flt"} THEN [ok |-> TRUE, value |-> fv.v]
  ELSE [ok |-> FALSE, value |-> 0]

(***************************************************************************)
(* HashObject(doc, keys): the identity of a document, a function of the    *)
(* named fields and their values, in the order given.                      *)
(***************************************************************************)
HashObject(doc, keys) == [i \in 1 .. Len(keys) |-> <<keys[i], doc[keys[i]]>>]


(***************************************************************************)
(* The two bulk requests of a call and the items counter.  ok is FALSE     *)
(* once Fatalf has ended the call.                                         *)
(***************************************************************************)
Bulks == [ok |-> TRUE, del |-> <<>>, add |-> <<>>, items |-> 0]

(* AddBulksItems whose insert request takes its id from the first key only. *)
AddBulksItems_FirstKeyId(st, doc, keys) ==
  [st EXCEPT !.del = Append(@, [id |-> HashObject(doc, keys)]),
             !.add = Append(@, [id |-> HashObject(doc, SubSeq(keys, 1, 1)),
                                doc |-> doc]),
             !.items = @ + 1]

(* AddBulksItems followed by items++ *)
AddBulksItems(st, doc, keys) ==
  LET docHash == HashObject(doc, keys)
  IN  [st EXCEPT !.del = Append(@, [id |-> docHash]),
                 !.add = Append(@, [id |-> docHash, doc |-> doc]),
                 !.items = @ + 1]

(* Fatalf that returns: the loop over the points goes on. *)
Fatal_Continue(st) == st

(* Fatalf ends the call. *)
Fatal(st) == [st EXCEPT !.ok = FALSE]

(* for tagName, tagValue := range p.tags { ... }   (lines 214-221) *)
RECURSIVE TagsLoop(_, _, _, _, _)
TagsLoop(acc, tags, order, i, outputs) ==
  IF i > Len(order) THEN acc
  ELSE LET tagName == order[i]
           tagValue == tags[tagName]
           obj == IF outputs[0]
                  THEN Put(acc.obj, ESEscapeFieldName(tagName), StrV(tagValue))
                  ELSE acc.obj
           data == IF outputs[1]
                   THEN Append(acc.data, ESDataObject(tagName, 0, tagValue))
                   ELSE acc.data
       IN  TagsLoop([obj |-> obj, data |-> data], tags, order, i + 1, outputs)

(* if outputs[0] || outputs[1] { ... }   (lines 208-227) *)
TagsDoc(st, p, outputs, order) ==
  LET obj0 == Put(Put(Put(<<>>, S_type, StrV(<<"t">> \o p.name)),
                      S_time, ToESDate(p.added)),
                  S_tag_time, ToESDate(p.t))
      r == TagsLoop([obj |-> obj0, data |-> <<>>], p.tags.m, order, 1, outputs)
      obj == IF outputs[1] THEN Put(r.obj, S_data, DataV(r.data)) ELSE r.obj
  IN  AddBulksItems(st, obj, <<S_type, S_tag_time>>)

(* The wide and the array output as two documents. *)
TagsDocIf_Separate(st, p, outputs, order) ==
  IF outputs[0] /\ outputs[1]
  THEN TagsDoc(TagsDoc(st, p, outputs, order), p, outputs, order)
  ELSE IF outputs[0] \/ outputs[1] THEN TagsDoc(st, p, outputs, order) ELSE st

TagsDocIf(st, p, outputs, order) ==
  IF outputs[0] \/ outputs[1] THEN TagsDoc(st, p, outputs, order) ELSE st

(* if outputs[2] { for tagName, tagValue := range p.tags ... }  (lines 228-239) *)
RECURSIVE TagsFlat(_, _, _, _)
TagsFlat(st, p, order, i) ==
  IF i > Len(order) THEN st
  ELSE LET tagName == order[i]
           tagValue == p.tags.m[tagName]
           obj == Put(Put(Put(Put(Put(<<>>, S_type, StrV(<<"i", "t">> \o p.name)),
                                  S_time, ToESDate(p.added)),
                              S_tag_time, ToESDate(p.t)),
                          S_name, StrV(tagName)),
                      S_svalue, StrV(tagValue))
       IN  TagsFlat(AddBulksItems(st, obj, <<S_type, S_tag_time, S_name>>),
                    p, order, i + 1)

TagsFlatIf(st, p, outputs, order) ==
  IF outputs[2] THEN TagsFlat(st, p, order, 1) ELSE st

(* for fieldName, fieldValue := range p.fields { ... }  (lines 249-265, 304-320) *)
RECURSIVE FieldsLoop(_, _, _, _, _)
FieldsLoop(acc, fields, order, i, outputs) ==
  IF i > Len(order) \/ ~acc.ok THEN acc
  ELSE LET fieldName == order[i]
           fieldValue == fields[fieldName]
           obj == IF outputs[0]
                  THEN Put(acc.obj, ESEscapeFieldName(fieldName), fieldValue)
                  ELSE acc.obj
           f == GetFloatFromInterface(fieldValue)
           ok == ~outputs[1] \/ fieldValue.k = "str" \/ f.ok
           data == IF ~outputs[1] \/ ~ok THEN acc.data
                   ELSE IF fieldValue.k = "str"
                        THEN Append(acc.data, ESDataObject(fieldName, 0, fieldValue.v))
                        ELSE Append(acc.data, ESDataObject(fieldName, f.value, <<>>))
       IN  FieldsLoop([ok |-> ok, obj |-> obj, data |-> data],
                      fields, order, i + 1, outputs)

(* if outputs[0] || outputs[1] { ... }  unmerged (lines 242-271) *)
FieldsDoc(st, p, outputs, order) ==
  LET obj0 == Put(Put(Put(Put(<<>>, S_type, StrV(<<"s">> \o p.name)),
                          S_time, ToESDate(p.t)),
                      S_period, StrV(p.period)),
                  S_time_added, ToESDate(p.added))
      r == FieldsLoop([ok |-> TRUE, obj |-> obj0, data |-> <<>>],
                      p.fields.m, order, 1, outputs)
      obj == IF outputs[1] THEN Put(r.obj, S_data, DataV(r.data)) ELSE r.obj
  IN  IF r.ok THEN AddBulksItems(st, obj, <<S_type, S_time, S_period>>)
      ELSE Fatal(st)

FieldsDocIf(st, p, outputs, order) ==
  IF outputs[0] \/ outputs[1] THEN FieldsDoc(st, p, outputs, order) ELSE st

(* value, ok := fieldValue.(string) ... obj["svalue"] / obj["ivalue"]
   (lines 280-289, 336-345) *)
PutValue(obj, fieldValue) ==
  LET f == GetFloatFromInterface(fieldValue)
  IN  IF fieldValue.k = "str"
      THEN [ok |-> TRUE, obj |-> Put(obj, S_svalue, StrV(fieldValue.v))]
      ELSE IF f.ok THEN [ok |-> TRUE, obj |-> Put(obj, S_ivalue, FltV(f.value))]
           ELSE [ok |-> FALSE, obj |-> obj]

(* if outputs[2] { for fieldName, fieldValue := range p.fields ... }
   unmerged (lines 272-293) *)
RECURSIVE FieldsFlat(_, _, _, _)
FieldsFlat(st, p, order, i) ==
  IF i > Len(order) \/ ~st.ok THEN st
  ELSE LET fieldName == order[i]
           obj0 == Put(Put(Put(Put(Put(<<>>, S_type, StrV(<<"i", "s">> \o p.name)),
                                   S_time, ToESDate(p.t)),
                               S_period, StrV(p.period)),
                           S_time_added, ToESDate(p.added)),
                       S_name, StrV(fieldName))
           r == PutValue(obj0, p.fields.m[fieldName])
       IN  IF r.ok
           THEN FieldsFlat(AddBulksItems(st, r.obj,
                                         <<S_type, S_time, S_period, S_name>>),
                           p, order, i + 1)
           ELSE Fatal(st)

FieldsFlatIf(st, p, outputs, order) ==
  IF st.ok /\ outputs[2] THEN FieldsFlat(st, p, order, 1) ELSE st

(* The merged combined document with the key fields of the unmerged one. *)
MergedFieldsDoc_NoSeriesKey(st, p, mergeS, outputs, order) ==
  LET obj0 == Put(Put(Put(Put(Put(<<>>, S_type, StrV(mergeS)),
                              S_time, ToESDate(p.t)),
                          S_period, StrV(p.period)),
                      S_series, StrV(p.name)),
                  S_time_added, ToESDate(p.added))
      r == FieldsLoop([ok |-> TRUE, obj |-> obj0, data |-> <<>>],
                      p.fields.m, order, 1, outputs)
      obj == IF outputs[1] THEN Put(r.obj, S_data, DataV(r.data)) ELSE r.obj
  IN  IF r.ok THEN AddBulksItems(st, obj, <<S_type, S_time, S_period>>)
      ELSE Fatal(st)

(* if outputs[0] || outputs[1] { ... }  merged (lines 296-326) *)
MergedFieldsDoc(st, p, mergeS, outputs, order) ==
  LET obj0 == Put(Put(Put(Put(Put(<<>>, S_type, StrV(mergeS)),
                              S_time, ToESDate(p.t)),
                          S_period, StrV(p.period)),
                      S_series, StrV(p.name)),
                  S_time_added, ToESDate(p.added))
      r == FieldsLoop([ok |-> TRUE, obj |-> obj0, data |-> <<>>],
                      p.fields.m, order, 1, outputs)
      obj == IF outputs[1] THEN Put(r.obj, S_data, DataV(r.data)) ELSE r.obj
  IN  IF r.ok THEN AddBulksItems(st, obj, <<S_type, S_time, S_period, S_series>>)
      ELSE Fatal(st)

MergedFieldsDocIf(st, p, mergeS, outputs, order) ==
  IF outputs[0] \/ outputs[1] THEN MergedFieldsDoc(st, p, mergeS, outputs, order)
  ELSE st

(* if outputs[2] { for fieldName, fieldValue := range p.fields ... }
   merged (lines 327-349) *)
RECURSIVE MergedFieldsFlat(_, _, _, _, _)
MergedFieldsFlat(st, p, mergeS, order, i) ==
  IF i > Len(order) \/ ~st.ok THEN st
  ELSE LET fieldName == order[i]
           obj0 == Put(Put(Put(Put(Put(Put(<<>>, S_type, StrV(<<"i">> \o mergeS)),
                                       S_time, ToESDate(p.t)),
                                   S_period, StrV(p.period)),
                               S_series, StrV(p.name)),
                           S_time_added, ToESDate(p.added)),
                       S_name, StrV(fieldName))
           r == PutValue(obj0, p.fields.m[fieldName])
       IN  IF r.ok
           THEN MergedFieldsFlat(AddBulksItems(st, r.obj,
                                   <<S_type, S_time, S_period, S_series, S_name>>),
                                 p, mergeS, order, i + 1)
           ELSE Fatal(st)

MergedFieldsFlatIf(st, p, mergeS, outputs, order) ==
  IF st.ok /\ outputs[2] THEN MergedFieldsFlat(st, p, mergeS, order, 1) ELSE st

(***************************************************************************)
(* The orders of the range loops over one point's maps: tw and tf for the  *)
(* two loops over p.tags, fw and ff for the two loops over p.fields.       *)
(***************************************************************************)
PointOrders(p) ==
  [tw : RangeOrders(p.tags.m), tf : RangeOrders(p.tags.m),
   fw : RangeOrders(p.fields.m), ff : RangeOrders(p.fields.m)]

(* if p.tags != nil { ... }  (lines 207-240) *)
TagsBranch(st, p, outputs, ord) ==
  IF p.tags.isNil THEN st
  ELSE TagsFlatIf(TagsDocIf(st, p, outputs, ord.tw), p, outputs, ord.tf)

(* The unmerged branch taken whatever merge is. *)
FieldsBranch_AlsoMerged(st, p, merge, outputs, ord) ==
  IF ~st.ok \/ p.fields.isNil THEN st
  ELSE FieldsFlatIf(FieldsDocIf(st, p, outputs, ord.fw), p, outputs, ord.ff)

(* if p.fields != nil && !merge { ... }  (lines 241-294) *)
FieldsBranch(st, p, merge, outputs, ord) ==
  IF ~st.ok \/ p.fields.isNil \/ merge THEN st
  ELSE FieldsFlatIf(FieldsDocIf(st, p, outputs, ord.fw), p, outputs, ord.ff)

(* if p.fields != nil && merge { ... }  (lines 295-350) *)
MergedFieldsBranch(st, p, mergeS, merge, outputs, ord) ==
  IF ~st.ok \/ p.fields.isNil \/ ~merge THEN st
  ELSE MergedFieldsFlatIf(MergedFieldsDocIf(st, p, mergeS, outputs, ord.fw),
                          p, mergeS, outputs, ord.ff)

(* The body of "for _, p := range *pts" (lines 206-351) for one point. *)
BuildPoint(st, p, mergeS, merge, outputs, ord) ==
  MergedFieldsBranch(
    FieldsBranch(TagsBranch(st, p, outputs, ord), p, merge, outputs, ord),
    p, mergeS, merge, outputs, ord)

(* for _, p := range *pts { ... }: ords[i] are the loop orders of point i. *)
RECURSIVE BuildPoints(_, _, _, _, _, _, _)
BuildPoints(st, pts, i, mergeS, merge, outputs, ords) ==
  IF i > Len(pts) \/ ~st.ok THEN st
  ELSE BuildPoints(BuildPoint(st, pts[i], mergeS, merge, outputs, ords[i]),
                   pts, i + 1, mergeS, merge, outputs, ords)

(* The loop orders possible for a point collection. *)
OrdersOf(pts) ==
  {o \in [1 .. Len(pts) -> UNION {PointOrders(pts[i]) : i \in 1 .. Len(pts)}] :
     \A i \in 1 .. Len(pts) : o[i] \in PointOrders(pts[i])}


(***************************************************************************)
(* The points of the protocol model.                                       *)
(***************************************************************************)
Point(name, tags, fields) ==
  [name |-> name, tags |-> tags, fields |-> fields,
   t |-> 1, added |-> 2, period |-> <<"h">>]

F_v == <<"v">>
F_w == <<"w">>
T_k == <<"k">>

Points ==
  { Point(<<"a">>, NilMap, MapOf([x \in {F_v} |-> IntV(1)])),
    Point(<<"a">>, NilMap, MapOf([x \in {F_v, F_w} |->
                                    IF x = F_v THEN IntV(2) ELSE StrV(<<"x">>)])),
    Point(<<"a">>, MapOf([x \in {T_k} |-> <<"x">>]), NilMap),
    Point(<<"b">>, NilMap, MapOf([x \in {F_v} |-> OthV])),
    Point(<<"a">>, NilMap, NilMap) }

(* The point collections: sequences of at most MaxPts points. *)
PointColls == UNION {[1 .. n -> Points] : n \in 0 .. MaxPts}

(* The merge labels and the output flags [3]bool. *)
MergeLabels == {<<>>, <<"m">>}
Outputs == [0 .. 2 -> BOOLEAN]

(***************************************************************************)
(* The points of the document model: tags and fields together, maps that   *)
(* are empty but not nil, and names that ESEscapeFieldName maps to, or     *)
(* that are, names of attributes the code sets itself.                     *)
(***************************************************************************)
T_l == <<"l">>
T_ty_pe == <<"t", "y", ".", "p", "e">>

DocPoints ==
  { Point(<<"a">>,
          MapOf([x \in {T_k, T_l} |-> IF x = T_k THEN <<"x">> ELSE <<"y">>]),
          MapOf([x \in {F_v, F_w} |->
                   IF x = F_v THEN IntV(1) ELSE StrV(<<"x">>)])),
    Point(<<"a">>, MapOf(<<>>), MapOf(<<>>)),
    Point(<<"a">>, NilMap, NilMap),
    Point(<<"a">>, MapOf([x \in {T_ty_pe} |-> <<"x">>]), NilMap),
    Point(<<"b">>, NilMap, MapOf([x \in {S_series} |-> StrV(<<"a">>)])) }

(* The number of tags and fields of a point collection. *)
RECURSIVE Attrs(_, _)
Attrs(c, i) ==
  IF i > Len(c) THEN 0
  ELSE Cardinality(DOMAIN c[i].tags.m) + Cardinality(DOMAIN c[i].fields.m)
       + Attrs(c, i + 1)

(* The collections of the document model: at most MaxPts points with at
   most MaxAttrs tags and fields in all. *)
DocColls ==
  {c \in UNION {[1 .. n -> DocPoints] : n \in 1 .. MaxPts} :
     Attrs(c, 1) <= MaxAttrs}

(***************************************************************************)
(* State.  indexExists and store are the ElasticSearch index d_<project>:  *)
(* store maps the _id of each document of the index to its body.  The      *)
(* other variables are per writer (a process running WriteESPoints).       *)
(***************************************************************************)
VARIABLES
  indexExists,  \* the index exists
  store,        \* _id -> document
  conf,         \* [mergeS, outputs]: the arguments mergeS and outputs of the calls
  pc,           \* where each writer is in WriteESPoints
  pts,          \* the argument pts of the writer's call
  exists,       \* what IndexExists returned: "unset", "true", "false", "error"
  createRes,    \* what es.es.CreateIndex returned: [err, acknowledged]
  bulks,        \* bulkDel, bulkAdd and items
  delRes,       \* what bulkDel.Do and bulkDel.NumberOfActions returned
  addRes,       \* what bulkAdd.Do and bulkAdd.NumberOfActions returned
  net,          \* the requests the call has sent to ElasticSearch, in order
  ncalls,       \* number of calls started
  nfaults,      \* number of faults of ElasticSearch and of its client so far
  prev          \* history: the store when the writer's call began, and whether
                \* the call repeats the collection of the writer's previous call,
                \* which completed

vars == <<indexExists, store, conf, pc, pts, exists, createRes, bulks,
          delRes, addRes, net, ncalls, nfaults, prev>>

NoCreate == [err |-> "unset", acknowledged |-> FALSE]
NoRes == [err |-> "unset", actions |-> 0, failed |-> <<>>]
NoPrev == [repeat |-> FALSE, store |-> <<>>]

Init ==
  /\ indexExists = FALSE
  /\ store = <<>>
  /\ conf \in [mergeS : MergeLabels, outputs : Outputs]
  /\ pc = [w \in Writers |-> "idle"]
  /\ pts = [w \in Writers |-> <<>>]
  /\ exists = [w \in Writers |-> "unset"]
  /\ createRes = [w \in Writers |-> NoCreate]
  /\ bulks = [w \in Writers |-> Bulks]
  /\ delRes = [w \in Writers |-> NoRes]
  /\ addRes = [w \in Writers |-> NoRes]
  /\ net = [w \in Writers |-> <<>>]
  /\ ncalls = 0
  /\ nfaults = 0
  /\ prev = [w \in Writers |-> NoPrev]

(* merge, mergeS after lines 194-198 *)
Merge(ms) == ms /= <<>>
MergeS(ms) == IF ms /= <<>> THEN <<"s">> \o ms ELSE ms

(* WriteESPoints without the return for an empty collection. *)
WriteESPoints_NoEarlyReturn(w, p, err) ==
  /\ pc[w] \in {"idle", "done"}
  /\ ncalls < MaxCalls
  /\ ncalls' = ncalls + 1
  /\ err => nfaults < MaxFaults
  /\ nfaults' = IF err THEN nfaults + 1 ELSE nfaults
  /\ prev' = [prev EXCEPT ![w] = [repeat |-> pc[w] = "done" /\ pts[w] = p,
                                  store |-> store]]
  /\ pts' = [pts EXCEPT ![w] = p]
  /\ createRes' = [createRes EXCEPT ![w] = NoCreate]
  /\ bulks' = [bulks EXCEPT ![w] = Bulks]
  /\ delRes' = [delRes EXCEPT ![w] = NoRes]
  /\ addRes' = [addRes EXCEPT ![w] = NoRes]
  /\ net' = [net EXCEPT ![w] = <<"IndexExists">>]
  /\ exists' = [exists EXCEPT ![w] =
                  IF err THEN "error"
                  ELSE IF indexExists THEN "true" ELSE "false"]
  /\ pc' = [pc EXCEPT ![w] =
              IF err THEN "fatal"
              ELSE IF indexExists THEN "build" ELSE "create"]
  /\ UNCHANGED <<indexExists, store, conf>>

(***************************************************************************)
(* WriteESPoints up to the return of es.IndexExists (lines 186-200): an    *)
(* empty collection returns at once; err /= nil is fatal (line 77).        *)
(***************************************************************************)
WriteESPoints(w, p, err) ==
  /\ pc[w] \in {"idle", "done"}
  /\ ncalls < MaxCalls
  /\ ncalls' = ncalls + 1
  /\ err => Len(p) > 0 /\ nfaults < MaxFaults
  /\ nfaults' = IF err THEN nfaults + 1 ELSE nfaults
  /\ prev' = [prev EXCEPT ![w] = [repeat |-> pc[w] = "done" /\ pts[w] = p,
                                  store |-> store]]
  /\ pts' = [pts EXCEPT ![w] = p]
  /\ createRes' = [createRes EXCEPT ![w] = NoCreate]
  /\ bulks' = [bulks EXCEPT ![w] = Bulks]
  /\ delRes' = [delRes EXCEPT ![w] = NoRes]
  /\ addRes' = [addRes EXCEPT ![w] = NoRes]
  /\ IF Len(p) = 0
     THEN /\ pc' = [pc EXCEPT ![w] = "done"]
          /\ exists' = [exists EXCEPT ![w] = "unset"]
          /\ net' = [net EXCEPT ![w] = <<>>]
     ELSE /\ net' = [net EXCEPT ![w] = <<"IndexExists">>]
          /\ exists' = [exists EXCEPT ![w] =
                          IF err THEN "error"
                          ELSE IF indexExists THEN "true" ELSE "false"]
          /\ pc' = [pc EXCEPT ![w] =
                      IF err THEN "fatal"
                      ELSE IF indexExists THEN "build" ELSE "create"]
  /\ UNCHANGED <<indexExists, store, conf>>

(* CreateIndex without the test for "already exists". *)
CreateIndexOutcome_NoRace(r) ==
  IF r.err /= "none" THEN "fatal"
  ELSE IF ~r.acknowledged THEN "fatal"
  ELSE "return"

(* CreateIndex that goes on after any error. *)
CreateIndexOutcome_AnyError(r) ==
  IF r.err /= "none" THEN "return"
  ELSE IF ~r.acknowledged THEN "fatal"
  ELSE "return"

(***************************************************************************)
(* CreateIndex (lines 82-94): what the code makes of the answer of         *)
(* es.es.CreateIndex.                                                      *)
(***************************************************************************)
CreateIndexOutcome(r) ==
  IF r.err = "already exists" THEN "return"
  ELSE IF r.err /= "none" THEN "fatal"
  ELSE IF ~r.acknowledged THEN "fatal"
  ELSE "return"

(* The answers ElasticSearch gives to a create-index request; cost counts
   the faults (a request that fails for another reason than the index
   existing, a creation that is not acknowledged). *)
CreateAnswers ==
  IF indexExists
  THEN {[err |-> "already exists", acknowledged |-> FALSE, cost |-> 0],
        [err |-> "other", acknowledged |-> FALSE, cost |-> 1]}
  ELSE {[err |-> "none", acknowledged |-> TRUE, cost |-> 0],
        [err |-> "none", acknowledged |-> FALSE, cost |-> 1],
        [err |-> "other", acknowledged |-> FALSE, cost |-> 1]}

CreateIndex(w) ==
  /\ pc[w] = "create"
  /\ \E r \in CreateAnswers :
       /\ nfaults + r.cost <= MaxFaults
       /\ nfaults' = nfaults + r.cost
       /\ indexExists' = (indexExists \/ r.err = "none")
       /\ createRes' = [createRes EXCEPT ![w] =
                          [err |-> r.err, acknowledged |-> r.acknowledged]]
       /\ pc' = [pc EXCEPT ![w] =
                   IF CreateIndexOutcome(r) = "return" THEN "build" ELSE "fatal"]
  /\ net' = [net EXCEPT ![w] = Append(@, "CreateIndex")]
  /\ UNCHANGED <<store, conf, pts, exists, bulks, delRes, addRes, ncalls, prev>>

(***************************************************************************)
(* The loop over the points (lines 204-351): both bulk requests are        *)
(* filled; a value that cannot be converted is fatal.                      *)
(***************************************************************************)
BuildBulks(w) ==
  /\ pc[w] = "build"
  /\ \E ords \in OrdersOf(pts[w]) :
       LET st == BuildPoints(Bulks, pts[w], 1, MergeS(conf.mergeS),
                             Merge(conf.mergeS), conf.outputs, ords)
       IN  /\ bulks' = [bulks EXCEPT ![w] = st]
           /\ pc' = [pc EXCEPT ![w] = IF st.ok THEN "del" ELSE "fatal"]
  /\ UNCHANGED <<indexExists, store, conf, pts, exists, createRes,
                 delRes, addRes, net, ncalls, nfaults, prev>>


(***************************************************************************)
(* ElasticSearch's execution of a bulk request: the items are executed in  *)
(* order; an item may fail on its own (fault "error": a version conflict,  *)
(* a rejected execution), and the delete of a missing document fails with  *)
(* result "not_found".  failed lists the Result of each failed item, as    *)
(* res.Failed() does.                                                      *)
(***************************************************************************)
Restrict(f, S) == [x \in S |-> f[x]]
Min(a, b) == IF a < b THEN a ELSE b

(* A delete by the first key field (the type), as a delete by query does. *)
RECURSIVE ESBulkDelete_ByType(_, _, _, _, _)
ESBulkDelete_ByType(acc, reqs, i, n, faults) ==
  IF i > n THEN acc
  ELSE LET id == reqs[i].id
           same == {x \in DOMAIN acc.store : x[1] = id[1]}
           next == IF faults[i] /= "none"
                   THEN [acc EXCEPT !.failed = Append(@, "")]
                   ELSE IF id \in DOMAIN acc.store
                   THEN [acc EXCEPT !.store = Restrict(@, (DOMAIN @) \ same)]
                   ELSE [acc EXCEPT !.failed = Append(@, "not_found")]
       IN  ESBulkDelete_ByType(next, reqs, i + 1, n, faults)

RECURSIVE ESBulkDelete(_, _, _, _, _)
ESBulkDelete(acc, reqs, i, n, faults) ==
  IF i > n THEN acc
  ELSE LET id == reqs[i].id
           next == IF faults[i] /= "none"
                   THEN [acc EXCEPT !.failed = Append(@, "")]
                   ELSE IF id \in DOMAIN acc.store
                   THEN [acc EXCEPT !.store = Restrict(@, (DOMAIN @) \ {id})]
                   ELSE [acc EXCEPT !.failed = Append(@, "not_found")]
       IN  ESBulkDelete(next, reqs, i + 1, n, faults)

RECURSIVE ESBulkIndex(_, _, _, _, _)
ESBulkIndex(acc, reqs, i, n, faults) ==
  IF i > n THEN acc
  ELSE LET next == IF faults[i] = "error"
                   THEN [acc EXCEPT !.failed = Append(@, "")]
                   ELSE IF faults[i] = "not_found"
                   THEN [acc EXCEPT !.failed = Append(@, "not_found")]
                   ELSE [acc EXCEPT !.store = Put(@, reqs[i].id, reqs[i].doc)]
       IN  ESBulkIndex(next, reqs, i + 1, n, faults)

(***************************************************************************)
(* The answers of BulkService.Do and NumberOfActions for a request on      *)
(* store s: an empty request is refused by the client ("No bulk actions    *)
(* to commit"); a failed submission leaves the store alone; otherwise all  *)
(* requests but the last `left` are executed.                              *)
(***************************************************************************)
SubmitErrors == {"search_phase_execution_exception", "other"}

(* The faults of an answer: requests left unexecuted, items made to fail. *)
Cost(left, f) ==
  (IF left > 0 THEN 1 ELSE 0) + Cardinality({i \in DOMAIN f : f[i] /= "none"})

BulkDeleteAnswers(s, reqs) ==
  IF Len(reqs) = 0
  THEN {[err |-> "no actions", actions |-> 0, failed |-> <<>>, store |-> s,
         cost |-> 0]}
  ELSE {[err |-> e, actions |-> Len(reqs), failed |-> <<>>, store |-> s,
         cost |-> 1] : e \in SubmitErrors}
       \cup
       {LET r == ESBulkDelete([store |-> s, failed |-> <<>>], reqs, 1,
                              Len(reqs) - left, f)
        IN  [err |-> "none", actions |-> left, failed |-> r.failed,
             store |-> r.store, cost |-> Cost(left, f)] :
          left \in 0 .. Min(MaxLeft, Len(reqs)),
          f \in [1 .. Len(reqs) -> {"none", "error"}]}

BulkIndexAnswers(s, reqs) ==
  IF Len(reqs) = 0
  THEN {[err |-> "no actions", actions |-> 0, failed |-> <<>>, store |-> s,
         cost |-> 0]}
  ELSE {[err |-> e, actions |-> Len(reqs), failed |-> <<>>, store |-> s,
         cost |-> 1] : e \in SubmitErrors}
       \cup
       {LET r == ESBulkIndex([store |-> s, failed |-> <<>>], reqs, 1,
                             Len(reqs) - left, f)
        IN  [err |-> "none", actions |-> left, failed |-> r.failed,
             store |-> r.store, cost |-> Cost(left, f)] :
          left \in 0 .. Min(MaxLeft, Len(reqs)),
          f \in [1 .. Len(reqs) -> {"none", "error", "not_found"}]}

Result(a) == [err |-> a.err, actions |-> a.actions, failed |-> a.failed]

(* strings.Contains(failed.Result, "not_found") *)
IsNotFound(result) == result = "not_found"

(* DeletePhase without the check of the failed items. *)
DeletePhase_IgnoreFailed(r) ==
  IF r.err /= "none" THEN "fatal"
  ELSE IF r.actions /= 0 THEN "fatal"
  ELSE "ok"

(* DeletePhase with every failed item fatal (nFailed is not decremented). *)
DeletePhase_NoTolerance(r) ==
  IF r.err /= "none" THEN "fatal"
  ELSE IF r.actions /= 0 THEN "fatal"
  ELSE IF Len(r.failed) > 0 THEN "fatal"
  ELSE "ok"

(* DeletePhase that passes as soon as one failed item is a not_found. *)
DeletePhase_AnyNotFound(r) ==
  IF r.err /= "none" THEN "fatal"
  ELSE IF r.actions /= 0 THEN "fatal"
  ELSE IF Len(r.failed) > 0 /\ \A i \in DOMAIN r.failed : ~IsNotFound(r.failed[i])
       THEN "fatal"
  ELSE "ok"

(* DeletePhase with the tolerance of DeleteByQuery (lines 103-108). *)
DeletePhase_SearchPhaseTolerated(r) ==
  LET nFailed == Len(r.failed)
                 - Cardinality({i \in DOMAIN r.failed : IsNotFound(r.failed[i])})
  IN  IF r.err = "search_phase_execution_exception" THEN "ok"
      ELSE IF r.err /= "none" THEN "fatal"
      ELSE IF r.actions /= 0 THEN "fatal"
      ELSE IF Len(r.failed) > 0 /\ nFailed > 0 THEN "fatal"
      ELSE "ok"

(***************************************************************************)
(* ExecuteBulks, delete phase (lines 146-165): what the code makes of the  *)
(* answer r to bulkDel.                                                    *)
(***************************************************************************)
DeletePhase(r) ==
  LET nFailed == Len(r.failed)
                 - Cardinality({i \in DOMAIN r.failed : IsNotFound(r.failed[i])})
  IN  IF r.err /= "none" THEN "fatal"
      ELSE IF r.actions /= 0 THEN "fatal"
      ELSE IF Len(r.failed) > 0 /\ nFailed > 0 THEN "fatal"
      ELSE "ok"

(* InsertPhase with the delete phase's tolerance of not_found. *)
InsertPhase_NotFoundTolerated(r) ==
  LET nFailed == Len(r.failed)
                 - Cardinality({i \in DOMAIN r.failed : IsNotFound(r.failed[i])})
  IN  IF r.err /= "none" THEN "fatal"
      ELSE IF r.actions /= 0 THEN "fatal"
      ELSE IF nFailed > 0 THEN "fatal"
      ELSE "ok"

(* InsertPhase without the check of the failed items. *)
InsertPhase_IgnoreFailed(r) ==
  IF r.err /= "none" THEN "fatal"
  ELSE IF r.actions /= 0 THEN "fatal"
  ELSE "ok"

(* ExecuteBulks, insert phase (lines 166-178) *)
InsertPhase(r) ==
  IF r.err /= "none" THEN "fatal"
  ELSE IF r.actions /= 0 THEN "fatal"
  ELSE IF Len(r.failed) > 0 THEN "fatal"
  ELSE "ok"

ExecuteBulksDel(w) ==
  /\ pc[w] = "del"
  /\ \E a \in BulkDeleteAnswers(store, bulks[w].del) :
       /\ nfaults + a.cost <= MaxFaults
       /\ nfaults' = nfaults + a.cost
       /\ store' = a.store
       /\ delRes' = [delRes EXCEPT ![w] = Result(a)]
       /\ pc' = [pc EXCEPT ![w] =
                   IF DeletePhase(Result(a)) = "ok" THEN "add" ELSE "fatal"]
  /\ net' = [net EXCEPT ![w] = Append(@, "bulkDel.Do")]
  /\ UNCHANGED <<indexExists, conf, pts, exists, createRes, bulks, addRes,
                 ncalls, prev>>

(* ExecuteBulks that undoes the inserts of a batch with a failed item. *)
ExecuteBulksAdd_Rollback(w) ==
  /\ pc[w] = "add"
  /\ \E a \in BulkIndexAnswers(store, bulks[w].add) :
       /\ nfaults + a.cost <= MaxFaults
       /\ nfaults' = nfaults + a.cost
       /\ store' = IF InsertPhase(Result(a)) = "ok" THEN a.store ELSE store
       /\ addRes' = [addRes EXCEPT ![w] = Result(a)]
       /\ pc' = [pc EXCEPT ![w] =
                   IF InsertPhase(Result(a)) = "ok" THEN "done" ELSE "fatal"]
  /\ net' = [net EXCEPT ![w] = Append(@, "bulkAdd.Do")]
  /\ UNCHANGED <<indexExists, conf, pts, exists, createRes, bulks, delRes,
                 ncalls, prev>>

ExecuteBulksAdd(w) ==
  /\ pc[w] = "add"
  /\ \E a \in BulkIndexAnswers(store, bulks[w].add) :
       /\ nfaults + a.cost <= MaxFaults
       /\ nfaults' = nfaults + a.cost
       /\ store' = a.store
       /\ addRes' = [addRes EXCEPT ![w] = Result(a)]
       /\ pc' = [pc EXCEPT ![w] =
                   IF InsertPhase(Result(a)) = "ok" THEN "done" ELSE "fatal"]
  /\ net' = [net EXCEPT ![w] = Append(@, "bulkAdd.Do")]
  /\ UNCHANGED <<indexExists, conf, pts, exists, createRes, bulks, delRes,
                 ncalls, prev>>

(***************************************************************************)
(* Spec: one writer makes up to MaxCalls calls, one after the other.       *)
(***************************************************************************)
Next ==
  \/ \E p \in PointColls, err \in BOOLEAN : WriteESPoints(1, p, err)
  \/ CreateIndex(1)
  \/ BuildBulks(1)
  \/ ExecuteBulksDel(1)
  \/ ExecuteBulksAdd(1)

Spec == Init /\ [][Next]_vars

(***************************************************************************)
(* SpecConc: two writers (two processes) make one call each, of at most    *)
(* one point, and their requests interleave.                               *)
(***************************************************************************)
ConcColls == {p \in PointColls : Len(p) <= 1}

NextConc ==
  \E w \in Writers :
    \/ \E p \in ConcColls, err \in BOOLEAN :
         pc[w] = "idle" /\ WriteESPoints(w, p, err)
    \/ CreateIndex(w)
    \/ BuildBulks(w)
    \/ ExecuteBulksDel(w)
    \/ ExecuteBulksAdd(w)

SpecConc == Init /\ [][NextConc]_vars

(***************************************************************************)
(* SpecDocs: one writer makes one call with a collection of the document   *)
(* model.                                                                  *)
(***************************************************************************)
NextDocs ==
  \/ \E p \in DocColls, err \in BOOLEAN : ncalls = 0 /\ WriteESPoints(1, p, err)
  \/ CreateIndex(1)
  \/ BuildBulks(1)
  \/ ExecuteBulksDel(1)
  \/ ExecuteBulksAdd(1)

SpecDocs == Init /\ [][NextDocs]_vars

(***************************************************************************)
(* Properties.                                                             *)
(***************************************************************************)
Sent(w, req) == \E i \in DOMAIN net[w] : net[w][i] = req
Before(w, a, b) ==
  \E i, j \in DOMAIN net[w] : i < j /\ net[w][i] = a /\ net[w][j] = b

(* The answer to the delete batch passes the three checks of the delete phase. *)
DeletePassed(w) ==
  /\ delRes[w].err = "none"
  /\ delRes[w].actions = 0
  /\ \A i \in DOMAIN delRes[w].failed : delRes[w].failed[i] = "not_found"

(* C1: the insert batch is submitted only after the delete batch's
   submission has returned and its three checks (submission error,
   unexecuted actions, per-item failures) have passed; a call whose delete
   phase ended fatally has not submitted the insert batch and is over. *)
C1_InsertAfterDelete ==
  \A w \in Writers :
    /\ Sent(w, "bulkAdd.Do") =>
         Before(w, "bulkDel.Do", "bulkAdd.Do") /\ DeletePassed(w)
    /\ pc[w] = "add" => Sent(w, "bulkDel.Do") /\ DeletePassed(w)
    /\ Sent(w, "bulkDel.Do") /\ ~DeletePassed(w) =>
         pc[w] = "fatal" /\ ~Sent(w, "bulkAdd.Do") /\ addRes[w] = NoRes

C1_Witness ==
  \E w \in Writers :
    /\ pc[w] = "done"
    /\ Before(w, "bulkDel.Do", "bulkAdd.Do")
    /\ Len(delRes[w].failed) > 0

(* C2: when every failed item of the delete batch is a not_found (all the
   items of the batch included), the delete phase does not fail: the call
   is at the submission of the insert batch or has made it. *)
C2_NotFoundTolerated ==
  \A w \in Writers :
    Sent(w, "bulkDel.Do") /\ DeletePassed(w) =>
      pc[w] = "add" \/ Sent(w, "bulkAdd.Do")

C2_Witness ==
  \E w \in Writers :
    /\ Len(bulks[w].del) > 1
    /\ Len(delRes[w].failed) = Len(bulks[w].del)
    /\ DeletePassed(w)
    /\ Sent(w, "bulkAdd.Do")

(* C3: when one failed item of the delete batch is not a not_found, the
   call is fatal and the insert batch is not submitted, whatever the number
   of not_found items in the same answer. *)
C3_OtherFailureFatal ==
  \A w \in Writers :
    (\E i \in DOMAIN delRes[w].failed : delRes[w].failed[i] /= "not_found") =>
      pc[w] = "fatal" /\ ~Sent(w, "bulkAdd.Do")

C3_Witness ==
  \E w \in Writers :
    /\ \E i \in DOMAIN delRes[w].failed : delRes[w].failed[i] /= "not_found"
    /\ \E i \in DOMAIN delRes[w].failed : delRes[w].failed[i] = "not_found"
    /\ pc[w] = "fatal"

(* C4 as stated: a delete submission that fails with a search-phase error
   is tolerated and the call goes on to the insert phase. *)
C4_SearchPhaseTolerated ==
  \A w \in Writers :
    delRes[w].err = "search_phase_execution_exception" =>
      pc[w] = "add" \/ Sent(w, "bulkAdd.Do")

(* C4 amended: a delete submission that fails with a search-phase error is
   fatal in ExecuteBulks, like any other submission error: the insert batch
   is not submitted and the store is as the call found it. *)
C4_SearchPhaseFatal ==
  \A w \in Writers :
    delRes[w].err \in SubmitErrors =>
      pc[w] = "fatal" /\ ~Sent(w, "bulkAdd.Do") /\ addRes[w] = NoRes

C4_Witness ==
  \E w \in Writers :
    /\ delRes[w].err = "search_phase_execution_exception"
    /\ pc[w] = "fatal"
    /\ Len(bulks[w].del) > 0

(* C5: in the insert phase a submission error, unexecuted actions or any
   failed item, not_found included, are fatal; a call of a non-empty
   collection is done only if every insert was executed and succeeded. *)
C5_InsertStrict ==
  \A w \in Writers :
    /\ Sent(w, "bulkAdd.Do") /\
       (addRes[w].err /= "none" \/ addRes[w].actions /= 0
          \/ Len(addRes[w].failed) > 0) => pc[w] = "fatal"
    /\ pc[w] = "done" /\ Len(pts[w]) > 0 =>
         /\ addRes[w] = [err |-> "none", actions |-> 0, failed |-> <<>>]
         /\ \A i \in DOMAIN bulks[w].add : bulks[w].add[i].id \in DOMAIN store

C5_Witness ==
  \E w \in Writers :
    /\ pc[w] = "fatal"
    /\ addRes[w].err = "none"
    /\ addRes[w].actions = 0
    /\ \E i \in DOMAIN addRes[w].failed : addRes[w].failed[i] = "not_found"

(* C6: a completed call that repeats the collection of the writer's
   previous completed call leaves the store as that call left it. *)
C6_Idempotent ==
  \A w \in Writers :
    pc[w] = "done" /\ prev[w].repeat => store = prev[w].store

(* The names of the key fields an identity was made from. *)
KeyNames(id) == [i \in DOMAIN id |-> id[i][1]]

(* Document doc has the key-field values of identity id. *)
HasKeyValues(doc, id) ==
  \A i \in DOMAIN id : id[i][1] \in DOMAIN doc /\ doc[id[i][1]] = id[i][2]

(* The last insert request of writer w's batch with the identity id. *)
LastDoc(w, id) ==
  LET last == CHOOSE i \in DOMAIN bulks[w].add :
                /\ bulks[w].add[i].id = id
                /\ \A j \in DOMAIN bulks[w].add :
                     bulks[w].add[j].id = id => j <= i
  IN  bulks[w].add[last].doc

(* C7: the index holds at most one document per identity: two documents of
   the index with the same key fields and equal values for them are one
   document; each built document has one delete and one insert request
   with its identity; after a completed call the index holds, for each
   identity of the call, the last document built with it. *)
C7_OneDocPerIdentity ==
  /\ \A id1, id2 \in DOMAIN store :
       KeyNames(id1) = KeyNames(id2) /\ HasKeyValues(store[id1], id2) => id1 = id2
  /\ \A id \in DOMAIN store : HasKeyValues(store[id], id)
  /\ \A w \in Writers :
       /\ Len(bulks[w].del) = Len(bulks[w].add)
       /\ bulks[w].items = Len(bulks[w].add)
       /\ \A i \in DOMAIN bulks[w].add :
            /\ bulks[w].del[i].id = bulks[w].add[i].id
            /\ HasKeyValues(bulks[w].add[i].doc, bulks[w].add[i].id)
  /\ pc[1] = "done" =>
       \A i \in DOMAIN bulks[1].add :
         /\ bulks[1].add[i].id \in DOMAIN store
         /\ store[bulks[1].add[i].id] = LastDoc(1, bulks[1].add[i].id)

C7_Witness ==
  /\ pc[1] = "done"
  /\ \E i, j \in DOMAIN bulks[1].add :
       /\ i < j
       /\ bulks[1].add[i].id = bulks[1].add[j].id
       /\ bulks[1].add[i].doc /= bulks[1].add[j].doc
  /\ \E id \in (DOMAIN store) \cap (DOMAIN prev[1].store) :
       store[id] /= prev[1].store[id]

CreateOK(w) == createRes[w].err = "none" /\ createRes[w].acknowledged
CreateTolerated(w) == createRes[w].err = "already exists"

(* C8: a writer whose index creation fails with "already exists" does not
   fail there and goes on to build and submit its batches; a creation that
   fails otherwise or is not acknowledged ends the call. *)
C8_CreateRace ==
  \A w \in Writers :
    createRes[w].err /= "unset" =>
      IF CreateTolerated(w) \/ CreateOK(w)
      THEN /\ pc[w] \in {"build", "del", "add", "done", "fatal"}
           /\ pc[w] = "fatal" => ~bulks[w].ok \/ Sent(w, "bulkDel.Do")
      ELSE /\ pc[w] = "fatal"
           /\ net[w] = <<"IndexExists", "CreateIndex">>
           /\ bulks[w] = Bulks

C8_Witness ==
  \E w1, w2 \in Writers :
    /\ exists[w1] = "false" /\ CreateOK(w1)
    /\ exists[w2] = "false" /\ CreateTolerated(w2)
    /\ pc[w2] = "done" /\ Sent(w2, "bulkAdd.Do")

(* C9: a call submits a batch only after IndexExists returned true, or
   returned false and the creation succeeded or met "already exists"; a call
   whose creation ended fatally submits no batch. *)
C9_IndexBeforeBatches ==
  \A w \in Writers :
    LET submitted == Sent(w, "bulkDel.Do") \/ Sent(w, "bulkAdd.Do")
    IN  /\ submitted \/ pc[w] \in {"del", "add"} =>
             /\ indexExists
             /\ net[w][1] = "IndexExists"
             /\ \/ exists[w] = "true" /\ ~Sent(w, "CreateIndex")
                \/ /\ exists[w] = "false"
                   /\ net[w][2] = "CreateIndex"
                   /\ CreateOK(w) \/ CreateTolerated(w)
        /\ createRes[w].err /= "unset" /\ ~CreateOK(w) /\ ~CreateTolerated(w) =>
             ~submitted /\ pc[w] = "fatal"

C9_Witness ==
  \E w1, w2 \in Writers :
    /\ exists[w1] = "false" /\ CreateOK(w1) /\ Sent(w1, "bulkDel.Do")
    /\ exists[w2] = "true" /\ Sent(w2, "bulkAdd.Do")

(* The identities of the documents built by writer w's call. *)
Ids(w) == {bulks[w].add[i].id : i \in DOMAIN bulks[w].add}
           \cup {bulks[w].del[i].id : i \in DOMAIN bulks[w].del}

Other(w) == CHOOSE v \in Writers : v /= w

(* C10: when two concurrent calls with disjoint identities have both
   completed, the index holds the documents of both; and the delete batch of
   a call removes no document of the identities of the other call. *)
C10_BothStored ==
  pc[1] = "done" /\ pc[2] = "done" /\ Ids(1) \cap Ids(2) = {} =>
    \A w \in Writers : \A id \in Ids(w) :
      id \in DOMAIN store /\ store[id] = LastDoc(w, id)

C10_NoForeignDelete ==
  \A w \in Writers :
    pc[w] = "del" /\ pc'[w] /= "del" /\ Ids(w) \cap Ids(Other(w)) = {} =>
      ((DOMAIN store) \ (DOMAIN store')) \cap Ids(Other(w)) = {}

C10_DisjointCalls == [] C10_BothStored /\ [][C10_NoForeignDelete]_vars

C10_Witness ==
  /\ pc[1] = "done" /\ pc[2] = "done"
  /\ Ids(1) /= {} /\ Ids(2) /= {}
  /\ Ids(1) \cap Ids(2) = {}
  /\ exists[1] = "false" /\ exists[2] = "false"

(* The output flags and the merge label of the calls. *)
AnyFlag == conf.outputs[0] \/ conf.outputs[1] \/ conf.outputs[2]

(* Some point of collection c has a field whose value is neither a string
   nor a number. *)
HasBadValue(c) ==
  \E i \in DOMAIN c : \E n \in DOMAIN c[i].fields.m :
    c[i].fields.m[n].k \notin {"str", "int", "flt"}

(* Writer w's call has gone through the loop over its points without a
   fatal end. *)
Built(w) == pc[w] \in {"del", "add", "done"} \/ Sent(w, "bulkDel.Do")

(* C11: with at least one output flag set, a call whose collection has a
   field value that is neither a string nor numerically coercible does not
   get through the loop over the points: it ends fatally there. *)
C11_CoercionEveryMode ==
  \A w \in Writers :
    AnyFlag /\ HasBadValue(pts[w]) => ~Built(w)

(* C12: when a value of the collection cannot be converted under the array
   or the flat output, the call ends in the loop over the points: neither
   batch is submitted and the store is as the call found it, whatever was
   queued before the failing value. *)
C12_FailBeforeSubmit ==
  (conf.outputs[1] \/ conf.outputs[2]) /\ HasBadValue(pts[1]) =>
    /\ pc[1] \in {"create", "build", "fatal"}
    /\ ~Sent(1, "bulkDel.Do") /\ ~Sent(1, "bulkAdd.Do")
    /\ delRes[1] = NoRes /\ addRes[1] = NoRes
    /\ store = prev[1].store
    /\ pc[1] = "fatal" /\
       (exists[1] = "true" \/ CreateOK(1) \/ CreateTolerated(1)) => ~bulks[1].ok

C12_Witness ==
  /\ pc[1] = "fatal"
  /\ ~bulks[1].ok
  /\ Len(bulks[1].add) > 0
  /\ \E i \in DOMAIN bulks[1].add : bulks[1].add[i].id \in DOMAIN store

(* A map that is absent (nil) or has no entry. *)
Unpopulated(mp) == mp.isNil \/ DOMAIN mp.m = {}

(* Every point of collection c has neither tags nor fields. *)
AllUnpopulated(c) ==
  \A i \in DOMAIN c : Unpopulated(c[i].tags) /\ Unpopulated(c[i].fields)

(* C13: the points without tags and without fields contribute no delete and
   no insert request, and a call of a non-empty collection of such points
   does not fail in ExecuteBulks, where both batches are empty. *)
C13_UnpopulatedSilent ==
  \A w \in Writers :
    Len(pts[w]) > 0 /\ AllUnpopulated(pts[w]) =>
      /\ bulks[w].items = 0
      /\ bulks[w].del = <<>> /\ bulks[w].add = <<>>
      /\ pc[w] = "fatal" => ~Sent(w, "bulkDel.Do")

(* name is one of the key fields that identity id was made from. *)
HasKey(id, name) == \E k \in DOMAIN id : id[k][1] = name

(* The insert requests of writer w for field-bearing documents (the ones
   with period among their key fields) and for tag documents (tag_time). *)
FieldDocs(w) ==
  {i \in DOMAIN bulks[w].add : HasKey(bulks[w].add[i].id, S_period)}
TagDocs(w) ==
  {i \in DOMAIN bulks[w].add : HasKey(bulks[w].add[i].id, S_tag_time)}

(* The number of documents of a branch with n tags or fields. *)
DocsOf(n) ==
  (IF conf.outputs[0] \/ conf.outputs[1] THEN 1 ELSE 0)
  + (IF conf.outputs[2] THEN n ELSE 0)

(* The number of field documents of the points i.. of c whose fields are
   not nil. *)
RECURSIVE FieldDocsOf(_, _)
FieldDocsOf(c, i) ==
  IF i > Len(c) THEN 0
  ELSE (IF c[i].fields.isNil THEN 0
        ELSE DocsOf(Cardinality(DOMAIN c[i].fields.m)))
       + FieldDocsOf(c, i + 1)

(* C14: the field-bearing documents of a point come from one branch: with
   an empty merge label they are typed "s" or "is" + series name and have
   no series attribute, with a merge label they are typed "s" or "is" +
   label and have the series name as series attribute; and each point with
   fields has the documents of one branch, not of both. *)
C14_OneFieldsBranch ==
  \A w \in Writers :
    /\ \A i \in FieldDocs(w) :
         \E j \in DOMAIN pts[w] :
           LET d == bulks[w].add[i].doc
               n == pts[w][j].name
           IN  /\ ~pts[w][j].fields.isNil
               /\ IF conf.mergeS = <<>>
                  THEN /\ d[S_type] \in {StrV(<<"s">> \o n), StrV(<<"i", "s">> \o n)}
                       /\ S_series \notin DOMAIN d
                       /\ ~HasKey(bulks[w].add[i].id, S_series)
                  ELSE /\ d[S_type] \in {StrV(<<"s">> \o conf.mergeS),
                                         StrV(<<"i", "s">> \o conf.mergeS)}
                       /\ S_series \in DOMAIN d
                       /\ d[S_series] = StrV(n)
                       /\ HasKey(bulks[w].add[i].id, S_series)
    /\ Built(w) => Cardinality(FieldDocs(w)) = FieldDocsOf(pts[w], 1)

C14_Witness ==
  /\ pc[1] = "done"
  /\ conf.mergeS /= <<>>
  /\ conf.outputs[0] /\ conf.outputs[2]
  /\ Cardinality(FieldDocs(1)) >= 3

(* The number of tag documents of the points i.. of c whose tags are not
   nil. *)
RECURSIVE TagDocsOf(_, _)
TagDocsOf(c, i) ==
  IF i > Len(c) THEN 0
  ELSE (IF c[i].tags.isNil THEN 0
        ELSE DocsOf(Cardinality(DOMAIN c[i].tags.m)))
       + TagDocsOf(c, i + 1)

(* The insert requests of writer w for flat documents (name is a key). *)
FlatDocs(w) ==
  {i \in DOMAIN bulks[w].add : HasKey(bulks[w].add[i].id, S_name)}

(* The number of points of c whose tags, or fields, are not nil. *)
WithTags(c) == Cardinality({i \in DOMAIN c : ~c[i].tags.isNil})
WithFields(c) == Cardinality({i \in DOMAIN c : ~c[i].fields.isNil})

(* C15: a branch of a point that is taken yields one combined document if
   wide or array (or both) is set, and one document per tag or field, with
   pairwise distinct names, if flat is set: T tags give
   (wide or array ? 1 : 0) + (flat ? T : 0) tag documents, F fields as many
   field documents, and the call has queued that many delete and insert
   requests in all. *)
C15_DocumentCount ==
  \A w \in Writers :
    Built(w) =>
      /\ Cardinality(TagDocs(w)) = TagDocsOf(pts[w], 1)
      /\ Cardinality(FieldDocs(w)) = FieldDocsOf(pts[w], 1)
      /\ Cardinality(TagDocs(w) \ FlatDocs(w)) =
           (IF conf.outputs[0] \/ conf.outputs[1] THEN WithTags(pts[w]) ELSE 0)
      /\ Cardinality(FieldDocs(w) \ FlatDocs(w)) =
           (IF conf.outputs[0] \/ conf.outputs[1] THEN WithFields(pts[w]) ELSE 0)
      /\ bulks[w].items = TagDocsOf(pts[w], 1) + FieldDocsOf(pts[w], 1)
      /\ Len(bulks[w].del) = bulks[w].items
      /\ Len(bulks[w].add) = bulks[w].items
      /\ Len(pts[w]) = 1 =>
           \A i, j \in FlatDocs(w) :
             /\ i /= j
             /\ HasKey(bulks[w].add[i].id, S_period)
                  = HasKey(bulks[w].add[j].id, S_period)
             => bulks[w].add[i].doc[S_name] /= bulks[w].add[j].doc[S_name]

C15_Witness ==
  /\ pc[1] = "done"
  /\ Len(pts[1]) = 1
  /\ Cardinality(DOMAIN pts[1][1].tags.m) = 2
  /\ Cardinality(DOMAIN pts[1][1].fields.m) = 2
  /\ conf.outputs[0] /\ conf.outputs[1] /\ conf.outputs[2]
  /\ bulks[1].items = 6
  /\ Cardinality(FlatDocs(1)) = 4

(* The pairs of points of writer w's collection that are of different
   series and have fields, the same time and the same period. *)
SeriesPairs(w) ==
  {ij \in (DOMAIN pts[w]) \X (DOMAIN pts[w]) :
     /\ pts[w][ij[1]].name /= pts[w][ij[2]].name
     /\ ~pts[w][ij[1]].fields.isNil /\ ~pts[w][ij[2]].fields.isNil
     /\ pts[w][ij[1]].t = pts[w][ij[2]].t
     /\ pts[w][ij[1]].period = pts[w][ij[2]].period}

(* The identities of the combined merged documents of series n that writer
   w has queued. *)
MergedIds(w, n) ==
  {bulks[w].add[i].id : i \in
     {k \in FieldDocs(w) \ FlatDocs(w) :
        /\ KeyNames(bulks[w].add[k].id) = <<S_type, S_time, S_period, S_series>>
        /\ bulks[w].add[k].doc[S_series] = StrV(n)}}

(* C16: with a merge label and the wide output, two points of different
   series with the same time and period have documents of different
   identities, series being a key field; after a completed call both are in
   the index, each with its own series. *)
C16_MergeIsolation ==
  conf.mergeS /= <<>> /\ conf.outputs[0] /\ Built(1) =>
    \A ij \in SeriesPairs(1) :
      LET n1 == pts[1][ij[1]].name
          n2 == pts[1][ij[2]].name
      IN  /\ MergedIds(1, n1) /= {} /\ MergedIds(1, n2) /= {}
          /\ MergedIds(1, n1) \cap MergedIds(1, n2) = {}
          /\ pc[1] = "done" =>
               /\ \A id \in MergedIds(1, n1) :
                    id \in DOMAIN store /\ store[id][S_series] = StrV(n1)
               /\ \A id \in MergedIds(1, n2) :
                    id \in DOMAIN store /\ store[id][S_series] = StrV(n2)

C16_Witness ==
  /\ conf.mergeS /= <<>> /\ conf.outputs[0]
  /\ pc[1] = "done"
  /\ SeriesPairs(1) /= {}
  /\ Cardinality(DOMAIN store) >= 2

(* The type the code's branch for a document of the key fields of id sets
   for a point of series name n. *)
BranchType(id, n) ==
  IF HasKey(id, S_tag_time)
  THEN (IF HasKey(id, S_name) THEN <<"i", "t">> ELSE <<"t">>) \o n
  ELSE (IF HasKey(id, S_name) THEN <<"i", "s">> ELSE <<"s">>)
       \o (IF conf.mergeS = <<>> THEN n ELSE conf.mergeS)

(* C17: every queued document has the type of the branch that built it
   and, in its key fields, the values taken from the point's name, times
   and period, whatever the names of the tags and fields. *)
C17_KeyFieldsKept ==
  \A w \in Writers : \A i \in DOMAIN bulks[w].add :
    \E j \in DOMAIN pts[w] :
      LET d == bulks[w].add[i].doc
          id == bulks[w].add[i].id
          p == pts[w][j]
      IN  /\ d[S_type] = StrV(BranchType(id, p.name))
          /\ HasKey(id, S_tag_time) =>
               d[S_tag_time] = ToESDate(p.t) /\ d[S_time] = ToESDate(p.added)
          /\ HasKey(id, S_period) =>
               d[S_time] = ToESDate(p.t) /\ d[S_period] = StrV(p.period)
          /\ HasKey(id, S_series) => d[S_series] = StrV(p.name)

(* The delete phase, or the insert phase, of writer w's call ended fatally
   because of a failed item: the submission returned no error and left no
   action unexecuted. *)
DelItemFatal(w) ==
  /\ pc[w] = "fatal"
  /\ delRes[w].err = "none" /\ delRes[w].actions = 0
  /\ \E i \in DOMAIN delRes[w].failed : ~IsNotFound(delRes[w].failed[i])
AddItemFatal(w) ==
  /\ pc[w] = "fatal"
  /\ addRes[w].err = "none" /\ addRes[w].actions = 0
  /\ Len(addRes[w].failed) > 0

(* The number of failed items of answer r that are not not_found. *)
Errors(r) == Cardinality({i \in DOMAIN r.failed : ~IsNotFound(r.failed[i])})

(* The documents writer w's call has queued under identity id. *)
DocsWith(w, id) ==
  {bulks[w].add[i].doc : i \in {k \in DOMAIN bulks[w].add : bulks[w].add[k].id = id}}

(* C18, state part: after a delete phase that failed on an item, the
   documents whose delete succeeded are gone and nothing was inserted; after
   an insert phase that failed on an item, the documents whose insert
   succeeded are in the index. *)
C18_Partial ==
  /\ DelItemFatal(1) =>
       /\ \A id \in DOMAIN store :
            id \in DOMAIN prev[1].store /\ store[id] = prev[1].store[id]
       /\ Cardinality(Ids(1) \cap DOMAIN store) <= Errors(delRes[1])
       /\ ~Sent(1, "bulkAdd.Do") /\ addRes[1] = NoRes
  /\ AddItemFatal(1) =>
       /\ Cardinality(Ids(1) \cap DOMAIN store)
            >= Cardinality(Ids(1)) - Len(addRes[1].failed)
       /\ \A id \in Ids(1) \cap DOMAIN store : store[id] \in DocsWith(1, id)
       /\ net[1][Len(net[1])] = "bulkAdd.Do"

(* C18, step part: a call that has ended fatally does nothing more. *)
C18_FatalIsFinal ==
  \A w \in Writers :
    pc[w] = "fatal" => pc'[w] = "fatal" /\ net'[w] = net[w] /\ store' = store

(* C18: no rollback and no further store operation after a phase has
   ended fatally on a failed item. *)
C18_NoRollback == [] C18_Partial /\ [][C18_FatalIsFinal]_vars

C18_Witness ==
  /\ AddItemFatal(1)
  /\ Len(bulks[1].add) >= 2
  /\ \E id \in Ids(1) : id \in DOMAIN store /\ id \notin DOMAIN prev[1].store

(* The identities in index s or in index t that are not of writer w's call. *)
Foreign(w, s, t) == ((DOMAIN s) \cup (DOMAIN t)) \ Ids(w)

(* C19, over a call: the documents of the identities that writer 1's call
   has not built are as they were when the call began, whether the call is
   under way, completed or ended fatally. *)
C19_CallFrame ==
  \A id \in Foreign(1, store, prev[1].store) :
    /\ id \in DOMAIN store /\ id \in DOMAIN prev[1].store
    /\ store[id] = prev[1].store[id]

(* C19, over a step: a step of a call leaves the documents of the
   identities the call has not built as they are. *)
C19_StepFrame ==
  \A w \in Writers :
    pc'[w] /= pc[w] \/ net'[w] /= net[w] =>
      \A id \in Foreign(w, store, store') :
        /\ id \in DOMAIN store /\ id \in DOMAIN store'
        /\ store'[id] = store[id]

(* C19: a call deletes and overwrites only documents with the identity of
   a document it has built. *)
C19_Frame == [] C19_CallFrame /\ [][C19_StepFrame]_vars

C19_Witness ==
  /\ pc[1] \in {"done", "fatal"}
  /\ Ids(1) /= {}
  /\ \E id \in DOMAIN store : id \notin Ids(1)
  /\ \E id \in Ids(1) : id \in DOMAIN prev[1].store /\
       (id \notin DOMAIN store \/ store[id] /= prev[1].store[id])

(* C20, state part: a call with an empty collection is over at once and has
   sent no request: no index check, no creation, no batch; the store is as
   the call found it. *)
C20_NothingSent ==
  pc[1] /= "idle" /\ pts[1] = <<>> =>
    /\ pc[1] = "done"
    /\ net[1] = <<>>
    /\ exists[1] = "unset" /\ createRes[1] = NoCreate
    /\ bulks[1] = Bulks /\ delRes[1] = NoRes /\ addRes[1] = NoRes
    /\ store = prev[1].store

(* C20, step part: the step of a call with an empty collection changes
   neither the store nor the existence of the index. *)
C20_NothingChanged ==
  ncalls' = ncalls + 1 /\ pts'[1] = <<>> =>
    /\ store' = store /\ indexExists' = indexExists
    /\ pc'[1] = "done" /\ net'[1] = <<>>

(* C20: WriteESPoints with an empty collection returns without any store
   operation. *)
C20_EmptyCollection == [] C20_NothingSent /\ [][C20_NothingChanged]_vars

C20_Witness ==
  /\ pc[1] = "done" /\ pts[1] = <<>>
  /\ ncalls = 2
  /\ store /= <<>>
  /\ net[1] = <<>>

=============================================================================
